---- MODULE Spec2Model ----
(***************************************************************************)
(* Vacancy aggregate service of cij_api (src/src/service/vacancy_service.go) *)
(* over a relational store.  The repositories (cij_api/src/repo/vacancy),  *)
(* the vacancy models and utils.Error are not part of the sources at hand; *)
(* their behaviour is taken from the specification document and marked so. *)
(***************************************************************************)
EXTENDS Integers, Sequences, FiniteSets, TLC

VARIABLES
    db,      \* committed tables: vacancies, skills, requirements, responsabilities, vacancyDisabilities
    nextId,  \* next value of the vacancy table's auto-increment identifier
    ret,     \* what the last service call that returned gave back (with the repository calls it issued)
    cr,      \* a CreateVacancy call in progress (position in the transaction closure, pending writes)
    rd       \* a read call (GetVacancyById / ListVacancies) in progress

vars == <<db, nextId, ret, cr, rd>>

\* ------------------------------------------------------------------ bounds

\* CreateVacancy calls (hence vacancy identifiers) in a behaviour of Spec.
MaxCalls == 2
\* CreateVacancy calls in a behaviour of SpecConc.
MaxConcCalls == 2
\* Pages a caller asks for: 1..MaxPage.
MaxPage == 2
\* Page sizes a caller asks for: 1..MaxPerPage.
MaxPerPage == 2
\* Longest sequence of join rows SpecDedup starts from.
MaxRows == 3

\* ------------------------------------------------------------- the data

\* The disability table: identifier -> category.  Two identifiers share the
\* category "Visual"; "visual" differs from it only by case.
DisabilityIds == 1..4

DisabilityCategory(id) ==
    CASE id = 1 -> "Visual"
      [] id = 2 -> "Hearing"
      [] id = 3 -> "Visual"
      [] OTHER  -> "visual"

\* Requests callers send to CreateVacancy.
TagLists == { <<>>, <<2>>, <<1, 2, 3>>, <<1, 2, 1>> }

ChildShapes ==
    { [skills |-> <<"go", "sql">>, requirements |-> <<"degree">>, responsabilities |-> <<>>],
      [skills |-> <<>>, requirements |-> <<>>, responsabilities |-> <<"oncall">>] }

Requests ==
    { [title |-> "dev", skills |-> c.skills, requirements |-> c.requirements,
       responsabilities |-> c.responsabilities, disabilities |-> t] :
      c \in ChildShapes, t \in TagLists }

\* Requests callers send to UpdateVacancy: another title than any stored one.
UpdateRequests ==
    { [title |-> "qa", skills |-> <<"rust">>, requirements |-> <<>>,
       responsabilities |-> <<>>, disabilities |-> <<2>>] }

\* Values of the disabilityCategory parameter of ListVacancies.
CategoryFilters == { "", "Visual", "Hearing" }

EmptyDb ==
    [vacancies |-> <<>>, skills |-> <<>>, requirements |-> <<>>,
     responsabilities |-> <<>>, vacancyDisabilities |-> <<>>]

\* ------------------------------------------------------------ helpers

SelectRows(rows, id) == SelectSeq(rows, LAMBDA r : r.vacancyId = id)

Contains(s, x) == \E k \in 1..Len(s) : s[k] = x

VacancyIds(d) == { d.vacancies[k].id : k \in 1..Len(d.vacancies) }

\* ------------------------------------------------- repositories (storage)

\* A store as a transaction closure sees it: the committed tables, the rows
\* the open transaction has written and not committed, the id sequence.
Store(d, n) == [db |-> d, tx |-> EmptyDb, nextId |-> n]

\* A row written through the transaction handle is pending until commit; a
\* row written without it is committed at once.
Insert(s, table, row, inTx) ==
    IF inTx THEN [s EXCEPT !.tx[table] = Append(@, row)]
    ELSE [s EXCEPT !.db[table] = Append(@, row)]

\* repo.VacancyRepo.UpsertVacancy: a request carries no identifier, so the
\* row is inserted under the next identifier, which the sequence never
\* hands out again (also when the transaction rolls back).
UpsertVacancy(s, vacancyModel, inTx) ==
    [Insert(s, "vacancies", [id |-> s.nextId, title |-> vacancyModel.title], inTx)
        EXCEPT !.nextId = s.nextId + 1]

CreateSkill(s, row, inTx) == Insert(s, "skills", row, inTx)

CreateRequirement(s, row, inTx) == Insert(s, "requirements", row, inTx)

CreateResponsability(s, row, inTx) == Insert(s, "responsabilities", row, inTx)

\* repo.VacancyDisabilityRepo.UpsertVacancyDisability: idempotent per
\* (vacancy, disability) pair.
UpsertVacancyDisability(s, row, inTx) ==
    IF Contains(s.db.vacancyDisabilities, row) \/ Contains(s.tx.vacancyDisabilities, row)
    THEN s
    ELSE Insert(s, "vacancyDisabilities", row, inTx)

\* repo.VacancyRepo.BeginTransaction: the closure's pending rows are
\* committed when it returns nil and dropped when it returns an error.
Commit(s) ==
    [t \in DOMAIN s.db |-> s.db[t] \o s.tx[t]]

Rollback(s) == s.db

\* Reads see committed rows only.
FindVacancy(d, id) == SelectSeq(d.vacancies, LAMBDA v : v.id = id)

ListSkillsByVacancyId(d, id) == SelectRows(d.skills, id)

ListRequirementsByVacancyId(d, id) == SelectRows(d.requirements, id)

ListResponsabilitiesByVacancyId(d, id) == SelectRows(d.responsabilities, id)

GetVacancyDisabilities(d, id) == SelectRows(d.vacancyDisabilities, id)

\* repo.VacancyRepo.ListVacancies: one page of the vacancy table in
\* identifier order; the category filter is not part of the query.
ListVacanciesPage(d, page, perPage) ==
    LET first == (page - 1) * perPage + 1
        last  == IF page * perPage < Len(d.vacancies) THEN page * perPage ELSE Len(d.vacancies)
    IN  IF first > last THEN <<>> ELSE SubSeq(d.vacancies, first, last)

\* ---------------------------------------------------------- CreateVacancy

\* The loops of the transaction closure, in source order.
LoopOrder == <<"skills", "requirements", "responsabilities", "disabilities">>

\* The next loop position at or after element i of loop k: Go's range over
\* an empty (or exhausted) slice falls through to the next loop, and after
\* the last loop the closure returns nil.
RECURSIVE Seek(_, _, _)
Seek(req, k, i) ==
    IF k > Len(LoopOrder) THEN [pc |-> "nil", k |-> 0, i |-> 0]
    ELSE IF i <= Len(req[LoopOrder[k]]) THEN [pc |-> LoopOrder[k], k |-> k, i |-> i]
    ELSE Seek(req, k + 1, 1)

Logged(m, repo, ok) == Append(m.calls, [repo |-> repo, ok |-> ok])

\* The closure's state after a repository call that succeeded: the store as
\* the call left it, and the position of the next call.
Advance(m, req, s, repo, k, i) ==
    LET nxt == Seek(req, k, i)
    IN  [m EXCEPT !.s = s, !.calls = Logged(m, repo, TRUE), !.pc = nxt.pc, !.i = nxt.i]

\* `return err`: the closure ends at the failing call.
Abort(m, repo) == [m EXCEPT !.pc = "err", !.calls = Logged(m, repo, FALSE)]

\* The transaction closure when CreateVacancy enters it.
CreateStart(d, n) ==
    [pc |-> "upsert", i |-> 0, id |-> 0, calls |-> <<>>, s |-> Store(d, n)]

\* The vacancy row written without the transaction handle.
UpsertBodyOutsideTx(m, req, ok) ==
    IF ~ok THEN Abort(m, "UpsertVacancy")
    ELSE [Advance(m, req, UpsertVacancy(m.s, [title |-> req.title], FALSE), "UpsertVacancy", 1, 1)
            EXCEPT !.id = m.s.nextId]

\* Lines 55-58.
UpsertBody(m, req, ok) ==
    IF ~ok THEN Abort(m, "UpsertVacancy")
    ELSE [Advance(m, req, UpsertVacancy(m.s, [title |-> req.title], TRUE), "UpsertVacancy", 1, 1)
            EXCEPT !.id = m.s.nextId]

\* The skill insert's error not looked at: the loop goes on.
SkillBodyUnchecked(m, req, ok) ==
    LET skillModel == [vacancyId |-> m.id, name |-> req.skills[m.i]]
        nxt == Seek(req, 1, m.i + 1)
    IN  [m EXCEPT !.s = IF ok THEN CreateSkill(m.s, skillModel, TRUE) ELSE m.s,
                  !.calls = Logged(m, "CreateSkill", ok), !.pc = nxt.pc, !.i = nxt.i]

\* Lines 60-68.
SkillBody(m, req, ok) ==
    LET skillModel == [vacancyId |-> m.id, name |-> req.skills[m.i]]
    IN  IF ~ok THEN Abort(m, "CreateSkill")
        ELSE Advance(m, req, CreateSkill(m.s, skillModel, TRUE), "CreateSkill", 1, m.i + 1)

\* The requirement row left without its vacancy identifier.
RequirementBodyNoVacancyId(m, req, ok) ==
    LET requirementModel == [vacancyId |-> 0, name |-> req.requirements[m.i]]
    IN  IF ~ok THEN Abort(m, "CreateRequirement")
        ELSE Advance(m, req, CreateRequirement(m.s, requirementModel, TRUE),
                     "CreateRequirement", 2, m.i + 1)

\* Lines 70-78.
RequirementBody(m, req, ok) ==
    LET requirementModel == [vacancyId |-> m.id, name |-> req.requirements[m.i]]
    IN  IF ~ok THEN Abort(m, "CreateRequirement")
        ELSE Advance(m, req, CreateRequirement(m.s, requirementModel, TRUE),
                     "CreateRequirement", 2, m.i + 1)

\* Lines 80-88.
ResponsabilityBody(m, req, ok) ==
    LET responsabilityModel == [vacancyId |-> m.id, name |-> req.responsabilities[m.i]]
    IN  IF ~ok THEN Abort(m, "CreateResponsability")
        ELSE Advance(m, req, CreateResponsability(m.s, responsabilityModel, TRUE),
                     "CreateResponsability", 3, m.i + 1)

\* Lines 90-100.
DisabilityBody(m, req, ok) ==
    LET disabilityModel == [vacancyId |-> m.id, disabilityId |-> req.disabilities[m.i]]
    IN  IF ~ok THEN Abort(m, "UpsertVacancyDisability")
        ELSE Advance(m, req, UpsertVacancyDisability(m.s, disabilityModel, TRUE),
                     "UpsertVacancyDisability", 4, m.i + 1)

\* One repository call of the closure, with the outcome the repository gives.
TxStep(m, req, ok) ==
    CASE m.pc = "upsert"           -> UpsertBody(m, req, ok)
      [] m.pc = "skills"           -> SkillBody(m, req, ok)
      [] m.pc = "requirements"     -> RequirementBody(m, req, ok)
      [] m.pc = "responsabilities" -> ResponsabilityBody(m, req, ok)
      [] m.pc = "disabilities"     -> DisabilityBody(m, req, ok)

TxRunning(m) == m.pc \notin {"nil", "err"}

\* The closure run to its return; its failAt-th repository call fails (0: none).
RECURSIVE TxRun(_, _, _)
TxRun(m, req, failAt) ==
    IF TxRunning(m) THEN TxRun(TxStep(m, req, Len(m.calls) + 1 # failAt), req, failAt)
    ELSE m

\* Repository calls the closure issues for req when none fails.
NumWrites(req) ==
    1 + Len(req.skills) + Len(req.requirements) + Len(req.responsabilities) + Len(req.disabilities)

vacancyServiceError(message, code) ==
    [category |-> "database", entity |-> "vacancy", code |-> code, message |-> message]

NoError == [category |-> "", entity |-> "", code |-> "", message |-> ""]

\* What CreateVacancy leaves and returns once the closure has returned.
CreateTables(m) == IF m.pc = "nil" THEN Commit(m.s) ELSE Rollback(m.s)

CreateReturn(m, req) ==
    [op |-> "CreateVacancy", request |-> req, vacancyId |-> m.id, calls |-> m.calls,
     err |-> IF m.pc # "nil" THEN vacancyServiceError("failed to create the vacancy", "01")
             ELSE NoError]

\* ---------------------------------------------------------- ListVacancies

\* Lines 121-134: the categories of a vacancy's join rows, each kept at its
\* first occurrence (slices.Contains compares strings exactly).
\* Every category appended, seen before or not.
RECURSIVE UniqueDisabilitiesAll(_, _)
UniqueDisabilitiesAll(vacancyDisabilities, uniqueDisabilities) ==
    IF vacancyDisabilities = <<>> THEN uniqueDisabilities
    ELSE UniqueDisabilitiesAll(Tail(vacancyDisabilities),
                               Append(uniqueDisabilities,
                                      DisabilityCategory(Head(vacancyDisabilities).disabilityId)))

RECURSIVE UniqueDisabilities(_, _)
UniqueDisabilities(vacancyDisabilities, uniqueDisabilities) ==
    IF vacancyDisabilities = <<>> THEN uniqueDisabilities
    ELSE LET category == DisabilityCategory(Head(vacancyDisabilities).disabilityId)
         IN  UniqueDisabilities(Tail(vacancyDisabilities),
                                IF Contains(uniqueDisabilities, category)
                                THEN uniqueDisabilities
                                ELSE Append(uniqueDisabilities, category))

\* Vacancy.ToSimpleResponse.
ToSimpleResponse(vacancy, disabilities) ==
    [id |-> vacancy.id, title |-> vacancy.title, disabilities |-> disabilities]

\* The category filter's test inverted: vacancies that have the category are skipped.
FilterAppendInverted(vacanciesResponse, vacancy, uniqueDisabilities, disabilityCategory) ==
    IF disabilityCategory # "" /\ Contains(uniqueDisabilities, disabilityCategory)
    THEN vacanciesResponse
    ELSE Append(vacanciesResponse, ToSimpleResponse(vacancy, uniqueDisabilities))

\* The response built by prepending.
FilterAppendPrepends(vacanciesResponse, vacancy, uniqueDisabilities, disabilityCategory) ==
    IF disabilityCategory # "" /\ ~Contains(uniqueDisabilities, disabilityCategory)
    THEN vacanciesResponse
    ELSE <<ToSimpleResponse(vacancy, uniqueDisabilities)>> \o vacanciesResponse

\* Lines 136-140: the vacancy is skipped when a category is asked for and
\* its list lacks it, and appended to the response otherwise.
FilterAppend(vacanciesResponse, vacancy, uniqueDisabilities, disabilityCategory) ==
    IF disabilityCategory # "" /\ ~Contains(uniqueDisabilities, disabilityCategory)
    THEN vacanciesResponse
    ELSE Append(vacanciesResponse, ToSimpleResponse(vacancy, uniqueDisabilities))

ListStart(page, perPage, disabilityCategory) ==
    [op |-> "ListVacancies", pc |-> "page", page |-> page, perPage |-> perPage,
     disabilityCategory |-> disabilityCategory, vacancies |-> <<>>, k |-> 0,
     list |-> <<>>, calls |-> <<>>, err |-> NoError]

ListFail(l, repo, message, code) ==
    [l EXCEPT !.pc = "done", !.list = <<>>, !.calls = Logged(l, repo, FALSE),
              !.err = vacancyServiceError(message, code)]

\* One repository call of ListVacancies against the committed tables d.
ListStep(l, d, ok) ==
    IF l.pc = "page"
    THEN IF ~ok THEN ListFail(l, "ListVacancies", "failed to list the vacancies", "02")
         ELSE LET vacancies == ListVacanciesPage(d, l.page, l.perPage)
              IN  [l EXCEPT !.vacancies = vacancies, !.k = 1,
                            !.calls = Logged(l, "ListVacancies", TRUE),
                            !.pc = IF vacancies = <<>> THEN "done" ELSE "item"]
    ELSE IF ~ok THEN ListFail(l, "GetVacancyDisabilities", "failed to get the disabilities", "03")
         ELSE LET vacancy == l.vacancies[l.k]
                  uniqueDisabilities == UniqueDisabilities(GetVacancyDisabilities(d, vacancy.id), <<>>)
              IN  [l EXCEPT !.list = FilterAppend(@, vacancy, uniqueDisabilities, l.disabilityCategory),
                            !.calls = Logged(l, "GetVacancyDisabilities", TRUE),
                            !.k = l.k + 1,
                            !.pc = IF l.k = Len(l.vacancies) THEN "done" ELSE "item"]

\* --------------------------------------------------------- GetVacancyById

\* The zero model.VacancyResponse.
EmptyResponse ==
    [id |-> 0, title |-> "", disabilities |-> <<>>, skills |-> <<>>,
     responsabilities |-> <<>>, requirements |-> <<>>]

Names(rows) == [k \in 1..Len(rows) |-> rows[k].name]

\* Lines 172-175: one category per join row, in row order.
Categories(vacancyDisabilities) ==
    [k \in 1..Len(vacancyDisabilities) |-> DisabilityCategory(vacancyDisabilities[k].disabilityId)]

\* Vacancy.ToResponse.
ToResponse(vacancy, disabilities, skills, responsabilities, requirements) ==
    [id |-> vacancy.id, title |-> vacancy.title, disabilities |-> disabilities,
     skills |-> Names(skills), responsabilities |-> Names(responsabilities),
     requirements |-> Names(requirements)]

GetStart(id) ==
    [op |-> "GetVacancyById", pc |-> "vacancy", id |-> id, vacancy |-> <<>>,
     skills |-> <<>>, requirements |-> <<>>, responsabilities |-> <<>>,
     calls |-> <<>>, response |-> EmptyResponse, err |-> NoError]

GetFail(g, repo, message, code) ==
    [g EXCEPT !.pc = "done", !.response = EmptyResponse, !.calls = Logged(g, repo, FALSE),
              !.err = vacancyServiceError(message, code)]

\* Lines 147-150.  The lookup of the vacancy row also fails when no row has
\* the identifier.
VacancyLookup(g, d, ok) ==
    IF ~ok \/ FindVacancy(d, g.id) = <<>>
    THEN GetFail(g, "GetVacancyById", "failed to get the vacancy", "03")
    ELSE [g EXCEPT !.vacancy = FindVacancy(d, g.id), !.pc = "skills",
                   !.calls = Logged(g, "GetVacancyById", TRUE)]

\* A lookup whose error is not looked at: the call is issued, its (empty)
\* result kept, and the next lookup follows.
SkillsLookupUnchecked(g, d, ok) ==
    [g EXCEPT !.skills = IF ok THEN ListSkillsByVacancyId(d, g.id) ELSE <<>>,
              !.pc = "requirements",
              !.calls = Logged(g, "ListSkillsByVacancyId", ok)]

\* Lines 152-155.
SkillsLookup(g, d, ok) ==
    IF ~ok THEN GetFail(g, "ListSkillsByVacancyId", "failed to get the skills", "04")
    ELSE [g EXCEPT !.skills = ListSkillsByVacancyId(d, g.id), !.pc = "requirements",
                   !.calls = Logged(g, "ListSkillsByVacancyId", TRUE)]

\* Lines 157-160.
RequirementsLookup(g, d, ok) ==
    IF ~ok THEN GetFail(g, "ListRequirementsByVacancyId", "failed to get the requirements", "05")
    ELSE [g EXCEPT !.requirements = ListRequirementsByVacancyId(d, g.id),
                   !.pc = "responsabilities",
                   !.calls = Logged(g, "ListRequirementsByVacancyId", TRUE)]

\* Lines 162-165.
ResponsabilitiesLookup(g, d, ok) ==
    IF ~ok THEN GetFail(g, "ListResponsabilitiesByVacancyId",
                        "failed to get the responsabilities", "06")
    ELSE [g EXCEPT !.responsabilities = ListResponsabilitiesByVacancyId(d, g.id),
                   !.pc = "disabilities",
                   !.calls = Logged(g, "ListResponsabilitiesByVacancyId", TRUE)]

\* Lines 167-182: the last lookup, and the response assembled from all five.
DisabilitiesLookup(g, d, ok) ==
    IF ~ok THEN GetFail(g, "GetVacancyDisabilities", "failed to get the disabilities", "07")
    ELSE [g EXCEPT !.pc = "done",
                   !.calls = Logged(g, "GetVacancyDisabilities", TRUE),
                   !.response = ToResponse(g.vacancy[1],
                                           Categories(GetVacancyDisabilities(d, g.id)),
                                           g.skills, g.responsabilities, g.requirements)]

\* One lookup of GetVacancyById against the committed tables d.
GetStep(g, d, ok) ==
    CASE g.pc = "vacancy"          -> VacancyLookup(g, d, ok)
      [] g.pc = "skills"           -> SkillsLookup(g, d, ok)
      [] g.pc = "requirements"     -> RequirementsLookup(g, d, ok)
      [] g.pc = "responsabilities" -> ResponsabilitiesLookup(g, d, ok)
      [] g.pc = "disabilities"     -> DisabilitiesLookup(g, d, ok)

\* A read call run to its return against one state d of the tables; its
\* failAt-th repository call fails (0: none).
ReadStep(r, d, ok) ==
    IF r.op = "ListVacancies" THEN ListStep(r, d, ok) ELSE GetStep(r, d, ok)

RECURSIVE ReadRun(_, _, _)
ReadRun(r, d, failAt) ==
    IF r.pc # "done" THEN ReadRun(ReadStep(r, d, Len(r.calls) + 1 # failAt), d, failAt)
    ELSE r

\* What the caller of a read gets back, with the call's arguments and the
\* repository calls it issued.
ListReturn(l) ==
    [op |-> "ListVacancies", page |-> l.page, perPage |-> l.perPage,
     disabilityCategory |-> l.disabilityCategory, list |-> l.list,
     calls |-> l.calls, err |-> l.err]

GetReturn(g) ==
    [op |-> "GetVacancyById", id |-> g.id, response |-> g.response,
     calls |-> g.calls, err |-> g.err]

ReadReturn(r) == IF r.op = "ListVacancies" THEN ListReturn(r) ELSE GetReturn(r)

\* ------------------------------------------- UpdateVacancy, DeleteVacancy

\* The closure of both: the lookup of the vacancy by id, and nothing else.
ExistsBody(d, id, ok) == ok /\ FindVacancy(d, id) # <<>>

UpdateReturn(d, req, id, ok) ==
    [op |-> "UpdateVacancy", request |-> req, id |-> id,
     calls |-> <<[repo |-> "GetVacancyById", ok |-> ExistsBody(d, id, ok)]>>,
     err |-> IF ~ExistsBody(d, id, ok)
             THEN vacancyServiceError("failed to update the vacancy", "08") ELSE NoError]

DeleteReturn(d, id, ok) ==
    [op |-> "DeleteVacancy", id |-> id,
     calls |-> <<[repo |-> "GetVacancyById", ok |-> ExistsBody(d, id, ok)]>>,
     err |-> IF ~ExistsBody(d, id, ok)
             THEN vacancyServiceError("failed to delete the vacancy", "09") ELSE NoError]

\* A delete that removes the vacancy row.
DeleteTablesRemoves(d, id) ==
    [d EXCEPT !.vacancies = SelectSeq(@, LAMBDA v : v.id # id)]

\* The tables UpdateVacancy and DeleteVacancy leave: their closures write nothing.
UpdateTables(d, req, id) == d

DeleteTables(d, id) == d

\* ------------------------------------------------------------- actions

NoCall == [op |-> "none"]

Idle == [pc |-> "idle"]

Init ==
    /\ db = EmptyDb
    /\ nextId = 1
    /\ ret = NoCall
    /\ cr = Idle
    /\ rd = Idle

CreateVacancy ==
    \E req \in Requests : \E failAt \in 0..NumWrites(req) :
        LET m == TxRun(CreateStart(db, nextId), req, failAt)
        IN  /\ nextId <= MaxCalls
            /\ db' = CreateTables(m)
            /\ nextId' = m.s.nextId
            /\ ret' = CreateReturn(m, req)
            /\ UNCHANGED <<cr, rd>>

\* Identifiers callers ask for: those handed out so far and one that never was.
AskedIds == 1..(MaxCalls + 1)

ListVacancies ==
    \E page \in 1..MaxPage, perPage \in 1..MaxPerPage, disabilityCategory \in CategoryFilters :
    \E failAt \in 0..(1 + Len(ListVacanciesPage(db, page, perPage))) :
        /\ ret' = ListReturn(ReadRun(ListStart(page, perPage, disabilityCategory), db, failAt))
        /\ UNCHANGED <<db, nextId, cr, rd>>

GetVacancyById ==
    \E id \in AskedIds, failAt \in 0..5 :
        /\ ret' = GetReturn(ReadRun(GetStart(id), db, failAt))
        /\ UNCHANGED <<db, nextId, cr, rd>>

UpdateVacancy ==
    \E req \in UpdateRequests, id \in AskedIds, ok \in BOOLEAN :
        /\ db' = UpdateTables(db, req, id)
        /\ ret' = UpdateReturn(db, req, id, ok)
        /\ UNCHANGED <<nextId, cr, rd>>

DeleteVacancy ==
    \E id \in AskedIds, ok \in BOOLEAN :
        /\ db' = DeleteTables(db, id)
        /\ ret' = DeleteReturn(db, id, ok)
        /\ UNCHANGED <<nextId, cr, rd>>

Next ==
    \/ CreateVacancy
    \/ ListVacancies
    \/ GetVacancyById
    \/ UpdateVacancy
    \/ DeleteVacancy

Spec == Init /\ [][Next]_vars

\* ------------------------------------------- the category reduction alone

\* Sequences of join rows of vacancy 1, of any disability identifiers,
\* repeated or not.
RECURSIVE JoinRowSeqs(_)
JoinRowSeqs(n) ==
    IF n = 0 THEN { <<>> }
    ELSE LET shorter == JoinRowSeqs(n - 1)
         IN  shorter \cup { Append(q, [vacancyId |-> 1, disabilityId |-> i]) :
                            q \in shorter, i \in DisabilityIds }

InitDedup ==
    /\ \E rows \in JoinRowSeqs(MaxRows) :
          db = [EmptyDb EXCEPT !.vacancies = <<[id |-> 1, title |-> "dev"]>>,
                               !.vacancyDisabilities = rows]
    /\ nextId = 2
    /\ ret = NoCall
    /\ cr = Idle
    /\ rd = Idle

NextDedup == ListVacancies

SpecDedup == InitDedup /\ [][NextDedup]_vars

\* ----------------------------------- a create and a read, call by call

\* Requests and read arguments of the interleaved runs.
ConcRequests ==
    { req \in Requests : req.skills # <<>> /\ req.disabilities \in { <<>>, <<1, 2, 3>> } }

ConcIds == 1..MaxConcCalls

\* The closure of the create in progress, over the tables as they are now.
Closure == [pc |-> cr.pc, i |-> cr.i, id |-> cr.id, calls |-> cr.calls,
            s |-> [db |-> db, tx |-> cr.tx, nextId |-> nextId]]

InProgress(m, req) ==
    [pc |-> m.pc, i |-> m.i, id |-> m.id, calls |-> m.calls, tx |-> m.s.tx, req |-> req]

CrBegin ==
    \E req \in ConcRequests :
        /\ cr.pc = "idle"
        /\ nextId <= MaxConcCalls
        /\ cr' = InProgress(CreateStart(db, nextId), req)
        /\ UNCHANGED <<db, nextId, ret, rd>>

CrStep ==
    \E ok \in BOOLEAN :
        /\ cr.pc \notin {"idle", "nil", "err"}
        /\ LET m == TxStep(Closure, cr.req, ok)
           IN  /\ cr' = InProgress(m, cr.req)
               /\ db' = m.s.db
               /\ nextId' = m.s.nextId
        /\ UNCHANGED <<ret, rd>>

CrReturn ==
    /\ cr.pc \in {"nil", "err"}
    /\ db' = CreateTables(Closure)
    /\ ret' = CreateReturn(Closure, cr.req)
    /\ cr' = Idle
    /\ UNCHANGED <<nextId, rd>>

RdBegin ==
    /\ rd.pc = "idle"
    /\ \/ \E id \in ConcIds : rd' = GetStart(id)
       \/ \E disabilityCategory \in CategoryFilters : rd' = ListStart(1, MaxPerPage, disabilityCategory)
    /\ UNCHANGED <<db, nextId, ret, cr>>

RdStep ==
    \E ok \in BOOLEAN :
        /\ rd.pc \notin {"idle", "done"}
        /\ rd' = ReadStep(rd, db, ok)
        /\ UNCHANGED <<db, nextId, ret, cr>>

RdReturn ==
    /\ rd.pc = "done"
    /\ ret' = ReadReturn(rd)
    /\ rd' = Idle
    /\ UNCHANGED <<db, nextId, cr>>

NextConc ==
    \/ CrBegin
    \/ CrStep
    \/ CrReturn
    \/ RdBegin
    \/ RdStep
    \/ RdReturn

SpecConc == Init /\ [][NextConc]_vars

\* ------------------------------------------------------------ properties

IsCreate(r) == r.op = "CreateVacancy"
IsList(r)   == r.op = "ListVacancies"
IsGet(r)    == r.op = "GetVacancyById"

Failed(r) == r.err.code # ""

SomeCallFailed(calls) == \E k \in 1..Len(calls) : ~calls[k].ok

RowsOf(d, id) ==
    [skills |-> SelectRows(d.skills, id), requirements |-> SelectRows(d.requirements, id),
     responsabilities |-> SelectRows(d.responsabilities, id),
     vacancyDisabilities |-> SelectRows(d.vacancyDisabilities, id)]

NoRowsOf(d, id) ==
    /\ id \notin VacancyIds(d)
    /\ \A t \in DOMAIN RowsOf(d, id) : RowsOf(d, id)[t] = <<>>

Range(q) == { q[k] : k \in 1..Len(q) }

\* b is a with n rows appended, each one belonging to vacancy id.
Adds(a, b, n, id) ==
    /\ Len(b) = Len(a) + n
    /\ SubSeq(b, 1, Len(a)) = a
    /\ \A k \in (Len(a) + 1)..Len(b) : b[k].vacancyId = id

\* C1: a CreateVacancy call one of whose repository writes fails leaves the
\* tables as they were (no vacancy row, no child row of the call), returns
\* the error with code "01", and the failing write is the last one it issued.
C1_CreateAllOrNothing ==
    [][ (IsCreate(ret') /\ SomeCallFailed(ret'.calls)) =>
            /\ db' = db
            /\ ret'.vacancyId # 0 => NoRowsOf(db', ret'.vacancyId)
            /\ ret'.err.code = "01"
            /\ \A k \in 1..Len(ret'.calls) : ~ret'.calls[k].ok => k = Len(ret'.calls) ]_vars

\* A create rolled back at a child insert, on tables that hold an earlier vacancy.
C1_Witness ==
    /\ IsCreate(ret) /\ ret.err.code = "01"
    /\ Len(ret.calls) = 4 /\ ret.calls[1].ok /\ ~ret.calls[4].ok
    /\ Len(db.vacancies) = 1

\* C2: a CreateVacancy call all of whose repository calls succeed appends
\* exactly one row per skill, requirement and responsibility of the request
\* and one join row per distinct disability tag, all carrying the identifier
\* the upsert of this call returned, and that identifier's vacancy row.
C2_CreateAddsRows ==
    [][ (IsCreate(ret') /\ ~Failed(ret') /\ nextId' # nextId) =>
            LET req == ret'.request
                id  == ret'.vacancyId
            IN  /\ id = nextId
                /\ Len(db'.vacancies) = Len(db.vacancies) + 1
                /\ db'.vacancies[Len(db'.vacancies)].id = id
                /\ Adds(db.skills, db'.skills, Len(req.skills), id)
                /\ Adds(db.requirements, db'.requirements, Len(req.requirements), id)
                /\ Adds(db.responsabilities, db'.responsabilities, Len(req.responsabilities), id)
                /\ Adds(db.vacancyDisabilities, db'.vacancyDisabilities,
                        Cardinality(Range(req.disabilities)), id) ]_vars

\* A second vacancy created with a repeated tag, two skills and a requirement.
C2_Witness ==
    /\ IsCreate(ret) /\ ~Failed(ret)
    /\ ret.request.disabilities = <<1, 2, 1>>
    /\ Len(ret.request.skills) = 2 /\ Len(ret.request.requirements) = 1
    /\ ret.vacancyId = 2 /\ Len(db.vacancies) = 2
    /\ Len(SelectRows(db.vacancyDisabilities, 2)) = 2

\* The categories of the join rows the tables hold for a vacancy.
StoredCategories(d, id) ==
    { DisabilityCategory(r.disabilityId) : r \in Range(GetVacancyDisabilities(d, id)) }

Ids(list) == [k \in 1..Len(list) |-> list[k].id]

PageOf(r) == ListVacanciesPage(db, r.page, r.perPage)

\* C4: a ListVacancies call with a category returns only vacancies that
\* have the category among their (deduplicated) categories; with the empty
\* category it returns every vacancy of the storage page.
C4_ListFilter ==
    (IsList(ret) /\ ~Failed(ret)) =>
        IF ret.disabilityCategory # ""
        THEN \A k \in 1..Len(ret.list) :
                /\ Contains(ret.list[k].disabilities, ret.disabilityCategory)
                /\ ret.disabilityCategory \in StoredCategories(db, ret.list[k].id)
        ELSE Ids(ret.list) = Ids(PageOf(ret))

\* A filtered list of a page of two vacancies that keeps one and drops the other.
C4_Witness ==
    /\ IsList(ret) /\ ~Failed(ret)
    /\ ret.disabilityCategory = "Hearing"
    /\ Len(PageOf(ret)) = 2 /\ Len(ret.list) = 1

FirstIndex(q, x) == CHOOSE k \in 1..Len(q) : q[k] = x /\ \A j \in 1..(k - 1) : q[j] # x

\* out holds each value of q once, in the order of first occurrence in q.
IsFirstSeenDedup(out, q) ==
    /\ Range(out) = Range(q)
    /\ \A i, j \in 1..Len(out) : i < j => out[i] # out[j]
    /\ \A i, j \in 1..Len(out) : i < j => FirstIndex(q, out[i]) < FirstIndex(q, out[j])

\* C5: the disability list ListVacancies computes for a vacancy holds each
\* category of the vacancy's join rows exactly once, nothing else, in the
\* order of first occurrence; categories that differ by case are different.
C5_DedupFirstSeen ==
    (IsList(ret) /\ ~Failed(ret)) =>
        \A k \in 1..Len(ret.list) :
            IsFirstSeenDedup(ret.list[k].disabilities,
                             Categories(GetVacancyDisabilities(db, ret.list[k].id)))

\* Join rows Visual, visual, Visual reduced to Visual, visual.
C5_Witness ==
    /\ IsList(ret) /\ ~Failed(ret) /\ Len(ret.list) = 1
    /\ Categories(GetVacancyDisabilities(db, 1)) = <<"Visual", "visual", "Visual">>
    /\ ret.list[1].disabilities = <<"Visual", "visual">>

\* C6: the disabilities GetVacancyById returns are the deduplicated
\* first-seen-order categories of the vacancy's join rows, never a category twice.
C6_GetDisabilitiesDeduplicated ==
    (IsGet(ret) /\ ~Failed(ret)) =>
        ret.response.disabilities = UniqueDisabilities(GetVacancyDisabilities(db, ret.id), <<>>)

\* The place in the service an error comes from: the operation and the
\* repository call that failed (CreateVacancy has one place for all).
Site(r) == IF IsCreate(r) THEN <<r.op, "BeginTransaction">>
           ELSE <<r.op, r.calls[Len(r.calls)].repo>>

\* C7: every error carries category "database" and entity "vacancy", and two
\* errors from different places of the service carry different codes.
C7_CodesDistinguishSites ==
    [][ (ret.op # "none" /\ Failed(ret) /\ Failed(ret')) =>
            /\ ret'.err.category = "database" /\ ret'.err.entity = "vacancy"
            /\ Site(ret) # Site(ret') => ret.err.code # ret'.err.code ]_vars

LookupOrder ==
    <<"GetVacancyById", "ListSkillsByVacancyId", "ListRequirementsByVacancyId",
      "ListResponsabilitiesByVacancyId", "GetVacancyDisabilities">>

LookupCodes == <<"03", "04", "05", "06", "07">>

\* C8: GetVacancyById issues its lookups in the order vacancy, skills,
\* requirements, responsibilities, disabilities and stops at the first that
\* fails, returning the empty response and that lookup's error; an unknown
\* id gives the vacancy-lookup error, whose code is not the skills-lookup
\* one; a populated response comes only after five successful lookups.
C8_GetStopsAtFirstFailure ==
    IsGet(ret) =>
        LET n == Len(ret.calls)
        IN  /\ n \in 1..5
            /\ \A k \in 1..n : ret.calls[k].repo = LookupOrder[k]
            /\ \A k \in 1..(n - 1) : ret.calls[k].ok
            /\ ~ret.calls[n].ok =>
                  /\ ret.response = EmptyResponse
                  /\ ret.err.code = LookupCodes[n]
                  /\ ret.err.message # ""
            /\ ret.calls[n].ok => (n = 5 /\ ~Failed(ret))
            /\ ret.id \notin VacancyIds(db) =>
                  (n = 1 /\ ret.err.code = "03" /\ ret.err.code # LookupCodes[2])
            /\ ret.response # EmptyResponse =>
                  (n = 5 /\ \A k \in 1..5 : ret.calls[k].ok)
            /\ ~Failed(ret) => ret.response.id = ret.id

\* The requirements lookup failed after the vacancy and skills lookups succeeded.
C8_Witness ==
    /\ IsGet(ret) /\ Len(ret.calls) = 3 /\ ~ret.calls[3].ok
    /\ ret.err.code = "05" /\ ret.id \in VacancyIds(db)

\* C9: UpdateVacancy and DeleteVacancy change no table; each succeeds
\* exactly when its lookup of the vacancy succeeds, which takes a stored
\* vacancy, and returns its own error ("08" / "09") otherwise.
C9_UpdateDeleteChangeNothing ==
    [][ ret'.op \in {"UpdateVacancy", "DeleteVacancy"} =>
            /\ db' = db
            /\ Failed(ret') <=> ~ret'.calls[1].ok
            /\ ret'.calls[1].ok => ret'.id \in VacancyIds(db')
            /\ ret'.id \notin VacancyIds(db) => Failed(ret')
            /\ Failed(ret') =>
                  ret'.err.code = IF ret'.op = "UpdateVacancy" THEN "08" ELSE "09" ]_vars

\* A successful delete of a vacancy that is still stored, with its children.
C9_Witness ==
    /\ ret.op = "DeleteVacancy" /\ ~Failed(ret)
    /\ ret.id \in VacancyIds(db)
    /\ RowsOf(db, ret.id).skills # <<>>
    /\ RowsOf(db, ret.id).vacancyDisabilities # <<>>

RECURSIVE IsSubseq(_, _)
IsSubseq(a, b) ==
    IF a = <<>> THEN TRUE
    ELSE IF b = <<>> THEN FALSE
    ELSE IF Head(a) = Head(b) THEN IsSubseq(Tail(a), Tail(b))
    ELSE IsSubseq(a, Tail(b))

\* C10: the list ListVacancies returns is a subsequence, in order, of the
\* page the storage gave, hence no longer than it.
C10_ListWithinPage ==
    (IsList(ret) /\ ~Failed(ret)) =>
        /\ IsSubseq(Ids(ret.list), Ids(PageOf(ret)))
        /\ Len(ret.list) <= Len(PageOf(ret))
        /\ Len(ret.list) <= ret.perPage

\* Fewer than perPage vacancies returned while a later page holds a match.
C10_Witness ==
    /\ IsList(ret) /\ ~Failed(ret) /\ ret.disabilityCategory # ""
    /\ Len(ret.list) < ret.perPage
    /\ Len(PageOf(ret)) = ret.perPage
    /\ \E k \in (ret.page * ret.perPage + 1)..Len(db.vacancies) :
          ret.disabilityCategory \in StoredCategories(db, db.vacancies[k].id)

\* The vacancy identifiers a read in progress has seen rows of.
SeenIds(r) ==
    IF r.pc = "idle" THEN {}
    ELSE IF r.op = "ListVacancies" THEN Range(Ids(r.vacancies)) \cup Range(Ids(r.list))
    ELSE Range(Ids(r.vacancy))
           \cup { x.vacancyId : x \in Range(r.skills) \cup Range(r.requirements)
                                        \cup Range(r.responsabilities) }

\* What a finished read returned is the whole aggregate of each vacancy in it.
WholeAggregates(r) ==
    IF r.op = "ListVacancies"
    THEN \A k \in 1..Len(r.list) :
            Range(r.list[k].disabilities) = StoredCategories(db, r.list[k].id)
    ELSE ~Failed(r) =>
            /\ r.response.skills = Names(RowsOf(db, r.id).skills)
            /\ r.response.requirements = Names(RowsOf(db, r.id).requirements)
            /\ r.response.responsabilities = Names(RowsOf(db, r.id).responsabilities)
            /\ r.response.disabilities = Categories(RowsOf(db, r.id).vacancyDisabilities)

\* C3: a read running beside a create never sees a row of the create in
\* progress nor of a create that was rolled back, and a vacancy it returns
\* comes with all of its children.
C3_NoPartialAggregateSeen ==
    /\ (cr.pc # "idle" /\ cr.id # 0) => cr.id \notin SeenIds(rd)
    /\ (IsCreate(ret) /\ Failed(ret)) => ret.vacancyId \notin SeenIds(rd)
    /\ rd.pc = "done" => WholeAggregates(rd)

\* A read of the vacancy being created ended "not found" while the create
\* held uncommitted rows, beside a read-visible earlier vacancy.
C3_Witness ==
    /\ cr.pc \in {"requirements", "disabilities"} /\ cr.tx.skills # <<>>
    /\ rd.pc = "done" /\ rd.op = "GetVacancyById" /\ rd.id = cr.id
    /\ rd.err.code = "03"
    /\ Len(db.vacancies) = 1

====
